---- MODULE Spec2Model ----
(***************************************************************************)
(* Users API (Express + Mongoose): the six /users handlers of              *)
(* controllers/userController.js over the User collection of               *)
(* models/User.js, with the error formatter of                             *)
(* middleware/errorMiddleware.js.                                          *)
(*                                                                         *)
(* Strings are sequences of one-character strings, so that toLowerCase,    *)
(* trim and the two regular expressions are computed, not assumed.         *)
(* A request handler is split at its awaits on the store: every action is  *)
(* one store operation together with the synchronous code around it.       *)
(***************************************************************************)
EXTENDS Naturals, Sequences, FiniteSets, Bags

\* ------------------------------------------------------------------ bounds

\* Requests accepted in one behaviour.
MaxReqs == 3
\* Handlers that may be suspended at an await at the same time.
MaxInflight == 2

\* ----------------------------------------------------------------- strings

Space == " "

UpperToLower ==
  [c \in {"A", "B"} |-> IF c = "A" THEN "a" ELSE "b"]

\* String.prototype.toLowerCase
toLowerCase(s) ==
  [i \in 1..Len(s) |-> IF s[i] \in DOMAIN UpperToLower THEN UpperToLower[s[i]] ELSE s[i]]

RECURSIVE trimStart(_)
trimStart(s) ==
  IF s # <<>> /\ Head(s) = Space THEN trimStart(Tail(s)) ELSE s

RECURSIVE trimEnd(_)
trimEnd(s) ==
  IF s # <<>> /\ s[Len(s)] = Space THEN trimEnd(SubSeq(s, 1, Len(s) - 1)) ELSE s

\* String.prototype.trim (the schema's trim: true)
trim(s) == trimEnd(trimStart(s))

\* [^\s@]+ : a non-empty run without whitespace or "@"
NoSpaceAt(s) ==
  /\ s # <<>>
  /\ \A i \in 1..Len(s) : s[i] \notin {Space, "@"}

\* emailRegex = /^[^\s@]+@[^\s@]+\.[^\s@]+$/
emailRegex(s) ==
  \E i \in 1..Len(s), j \in 1..Len(s) :
    /\ i < j
    /\ s[i] = "@"
    /\ s[j] = "."
    /\ NoSpaceAt(SubSeq(s, 1, i - 1))
    /\ NoSpaceAt(SubSeq(s, i + 1, j - 1))
    /\ NoSpaceAt(SubSeq(s, j + 1, Len(s)))

Digit == {"0", "1", "2", "3", "4", "5", "6", "7", "8", "9"}

\* [6-9]\d{9}
MobileBody(s) ==
  /\ Len(s) = 10
  /\ s[1] \in {"6", "7", "8", "9"}
  /\ \A i \in 2..10 : s[i] \in Digit

\* indianPhoneRegex = /^(?:\+91|91|0)?[6-9]\d{9}$/
indianPhoneRegex(s) ==
  \/ MobileBody(s)
  \/ Len(s) = 13 /\ SubSeq(s, 1, 3) = <<"+", "9", "1">> /\ MobileBody(SubSeq(s, 4, 13))
  \/ Len(s) = 12 /\ SubSeq(s, 1, 2) = <<"9", "1">> /\ MobileBody(SubSeq(s, 3, 12))
  \/ Len(s) = 11 /\ SubSeq(s, 1, 1) = <<"0">> /\ MobileBody(SubSeq(s, 2, 11))

\* ------------------------------------------------------------------ bcrypt

\* The salts bcrypt.genSalt may draw.
Salts == {"s1", "s2"}

BcryptTag == "$2b$"

\* bcrypt.hash(data, saltRounds), for the salt it drew: a digest that names
\* its salt and is determined by salt and data.
bcryptHash(data, salt) == <<BcryptTag, salt>> \o data

\* bcrypt.compare(data, encrypted): hash data again with the digest's salt.
bcryptCompare(data, encrypted) ==
  /\ Len(encrypted) >= 2
  /\ encrypted[1] = BcryptTag
  /\ bcryptHash(data, encrypted[2]) = encrypted

\* ------------------------------------------------------------- User schema

\* !v for a string field of a JSON body: absent, null and "" alike
Falsy(v) == v = <<>>

Paths == {"name", "email", "phone", "password", "role"}

RoleEnum == {"user", "admin"}

DefaultRole == "user"

\* The schema's setters: trim on name and phone, lowercase and trim on email.
applySetters(path, v) ==
  CASE path = "name" -> trim(v)
    [] path = "email" -> trim(toLowerCase(v))
    [] path = "phone" -> trim(v)
    [] OTHER -> v

\* A set that marks every path of the document modified.
DocSet_MarkAll(u, path, v) ==
  [u EXCEPT !.doc[path] = applySetters(path, v), !.modified = Paths]

\* doc.set(path, v): the setter's value is stored, and the path is marked
\* modified when the value differs from the one held.
DocSet(u, path, v) ==
  LET w == applySetters(path, v)
  IN  IF u.doc[path] = w
      THEN u
      ELSE [u EXCEPT !.doc[path] = w, !.modified = @ \cup {path}]

\* new User({name, email, phone, password, role: role || undefined}) with the
\* _id the constructor draws.
NewUser(id, body) ==
  [doc |-> [_id |-> id,
            name |-> applySetters("name", body.name),
            email |-> applySetters("email", body.email),
            phone |-> applySetters("phone", body.phone),
            password |-> body.password,
            role |-> IF body.role = "" THEN DefaultRole ELSE body.role],
   isNew |-> TRUE,
   modified |-> Paths]

\* A document hydrated from the store by findById.
Hydrate(stored) == [doc |-> stored, isNew |-> FALSE, modified |-> {}]

\* A role path without its enum.
enumValidator_Any(role) == TRUE

\* role: {enum: ["user", "admin"]}
enumValidator(role) == role \in RoleEnum

\* The schema's validators, in path order; the messages of the failing ones
\* (the enum message is Mongoose's, without its quotation marks).
ValidationMessages(doc) ==
  (IF doc.name = <<>> THEN <<"Name is required">> ELSE <<>>)
  \o (IF doc.email = <<>> THEN <<"Email is required">>
      ELSE IF ~emailRegex(doc.email) THEN <<"Please fill a valid email address">>
      ELSE <<>>)
  \o (IF doc.phone = <<>> THEN <<"Phone is required">>
      ELSE IF ~indianPhoneRegex(doc.phone)
      THEN <<"Please fill a valid Indian phone number">>
      ELSE <<>>)
  \o (IF doc.password = <<>> THEN <<"Password is required">> ELSE <<>>)
  \o (IF ~enumValidator(doc.role)
      THEN <<doc.role \o " is not a valid enum value for path role.">>
      ELSE <<>>)

\* A pre-save hook that stores the password as it is.
preSave_NoHash(u, salt) == u

\* A pre-save hook without the isModified guard: every save hashes the
\* password the document holds, and the assignment marks the path modified.
preSave_Always(u, salt) ==
  [u EXCEPT !.doc.password = bcryptHash(u.doc.password, salt),
            !.modified = @ \cup {"password"}]

\* userSchema.pre("save"): hash the password when it was modified.
preSave(u, salt) ==
  IF "password" \notin u.modified
  THEN u
  ELSE [u EXCEPT !.doc.password = bcryptHash(u.doc.password, salt)]

\* userSchema.set("toJSON"): id in place of _id, no password.
toJSON(doc) ==
  [k \in (DOMAIN doc \ {"_id", "password"}) \cup {"id"} |->
     IF k = "id" THEN doc._id ELSE doc[k]]

\* ------------------------------------------------------------------ errors

NoError ==
  [name |-> "", message |-> "", code |-> 0, errors |-> <<>>, keyPattern |-> <<>>]

Error(msg) == [NoError EXCEPT !.name = "Error", !.message = msg]

ValidationError(msgs) ==
  [NoError EXCEPT !.name = "ValidationError",
                  !.message = "User validation failed",
                  !.errors = msgs]

DuplicateKeyError ==
  [NoError EXCEPT !.name = "MongoServerError",
                  !.message = "E11000 duplicate key error collection: users index: email_1",
                  !.code = 11000,
                  !.keyPattern = <<"email">>]

DocumentNotFoundError ==
  [NoError EXCEPT !.name = "DocumentNotFoundError",
                  !.message = "No document found for query"]

RECURSIVE join(_, _)
\* Array.prototype.join
join(xs, sep) ==
  IF xs = <<>> THEN ""
  ELSE IF Len(xs) = 1 THEN xs[1]
  ELSE xs[1] \o sep \o join(Tail(xs), sep)

\* An error formatter without the duplicate-key case.
errorHandler_NoDuplicateKey(err, resStatusCode) ==
  LET statusCode0 ==
        IF resStatusCode # 0 /\ resStatusCode # 200 THEN resStatusCode ELSE 500
      message0 == IF err.message # "" THEN err.message ELSE "Server Error"
      isValidation == err.name = "ValidationError"
  IN  [status |-> IF isValidation THEN 400 ELSE statusCode0,
       body |-> [success |-> FALSE,
                 message |-> IF isValidation THEN join(err.errors, ", ") ELSE message0]]

\* An error formatter that takes every status but 200 from the response,
\* also a status of 0.
errorHandler_NoZeroCheck(err, resStatusCode) ==
  LET isValidation == err.name = "ValidationError"
      isDuplicate == err.code # 0 /\ err.code = 11000
  IN  [status |-> IF isValidation \/ isDuplicate THEN 400
                  ELSE IF resStatusCode # 200 THEN resStatusCode ELSE 500,
       body |-> [success |-> FALSE,
                 message |-> IF isDuplicate THEN err.keyPattern[1] \o " already exists"
                             ELSE IF isValidation THEN join(err.errors, ", ")
                             ELSE IF err.message # "" THEN err.message
                             ELSE "Server Error"]]

\* errorHandler(err, req, res, next), for the status the handler left on res.
errorHandler(err, resStatusCode) ==
  LET statusCode0 ==
        IF resStatusCode # 0 /\ resStatusCode # 200 THEN resStatusCode ELSE 500
      message0 == IF err.message # "" THEN err.message ELSE "Server Error"
      isValidation == err.name = "ValidationError"
      statusCode1 == IF isValidation THEN 400 ELSE statusCode0
      message1 == IF isValidation THEN join(err.errors, ", ") ELSE message0
      isDuplicate == err.code # 0 /\ err.code = 11000
      statusCode2 == IF isDuplicate THEN 400 ELSE statusCode1
      message2 == IF isDuplicate THEN err.keyPattern[1] \o " already exists" ELSE message1
  IN  [status |-> statusCode2, body |-> [success |-> FALSE, message |-> message2]]

\* ------------------------------------------------------------------- store

\* mongoose.Types.ObjectId.isValid(id): identifiers are numbered from 1, and
\* 0 stands for a string that is no ObjectId.
ObjectIdIsValid(id) == id # 0

\* A findOne whose filter matches no document.
findOne_None(st, email) == {}

\* User.findOne({email}): the filter is cast by the schema (lowercase, trim).
findOne(st, email) ==
  {i \in DOMAIN st : st[i].email = applySetters("email", email)}

\* A collection whose email index is not unique.
DuplicateKey_NoIndex(st, doc) == FALSE

\* The unique index on email: another document holds this email.
DuplicateKey(st, doc) ==
  \E j \in DOMAIN st : j # doc._id /\ st[j].email = doc.email

\* A delete that removes nothing.
findByIdAndDelete_Kept(st, id) == st

\* User.findByIdAndDelete(id): the collection without the document
findByIdAndDelete(st, id) == [i \in DOMAIN st \ {id} |-> st[i]]

\* doc.save(): validate, run the pre-save hook, then insert the new document or
\* $set the modified paths of the stored one.
save(st, u, salt) ==
  LET msgs == ValidationMessages(u.doc)
      h == preSave(u, salt)
      id == u.doc._id
      clean == [h EXCEPT !.isNew = FALSE, !.modified = {}]
  IN  IF msgs # <<>>
      THEN [ok |-> FALSE, err |-> ValidationError(msgs), store |-> st, user |-> u]
      ELSE IF u.isNew
      THEN IF DuplicateKey(st, h.doc)
           THEN [ok |-> FALSE, err |-> DuplicateKeyError, store |-> st, user |-> h]
           ELSE [ok |-> TRUE, err |-> NoError,
                 store |-> [i \in DOMAIN st \cup {id} |-> IF i = id THEN h.doc ELSE st[i]],
                 user |-> clean]
      ELSE IF id \notin DOMAIN st
      THEN [ok |-> FALSE, err |-> DocumentNotFoundError, store |-> st, user |-> h]
      ELSE IF "email" \in h.modified /\ DuplicateKey(st, h.doc)
      THEN [ok |-> FALSE, err |-> DuplicateKeyError, store |-> st, user |-> h]
      ELSE [ok |-> TRUE, err |-> NoError,
            store |-> [st EXCEPT ![id] =
                         [p \in DOMAIN @ |-> IF p \in h.modified THEN h.doc[p] ELSE @[p]]],
            user |-> clean]

\* ------------------------------------------------------------------ inputs

NameA == <<"A">>
NameB == <<"B", " ">>

EmailA == <<"a", "@", "x", ".", "c">>
EmailAUpper == <<"A", "@", "x", ".", "c">>
EmailB == <<"b", "@", "x", ".", "c", " ">>
EmailBad == <<"a", "x">>

PhoneOk == <<"9", "8", "7", "6", "5", "4", "3", "2", "1", "0">>
PhonePrefixed == <<"+", "9", "1", "6", "0", "0", "0", "0", "0", "0", "0", "0", "0">>
PhoneBad == <<"1", "2", "3">>

PasswordP == <<"p">>
PasswordQ == <<"q">>

\* The bodies of POST /users/register: the valid ones, and one for each way
\* of failing (a missing field, a role outside the enum, two invalid fields).
\* "" is an absent role.
RegisterBodies ==
  [name : {NameA}, email : {EmailA, EmailAUpper, EmailB}, phone : {PhoneOk},
   password : {PasswordP}, role : {"", "admin"}]
  \cup [name : {<<>>}, email : {EmailA}, phone : {PhoneOk}, password : {PasswordP},
        role : {""}]
  \cup [name : {NameA}, email : {EmailA}, phone : {PhoneOk}, password : {PasswordP},
        role : {"root"}]
  \cup [name : {NameA}, email : {EmailBad}, phone : {PhoneBad}, password : {PasswordP},
        role : {""}]

LoginBodies ==
  [email : {EmailA, EmailAUpper, EmailB}, password : {PasswordP, PasswordQ}]
  \cup [email : {EmailA}, password : {<<>>}]

\* The bodies of PUT /users/:id: no field, one field, or all four.
UpdateFields ==
  [name : {<<>>, NameB}, email : {<<>>, EmailAUpper, EmailB, EmailBad},
   phone : {<<>>, PhonePrefixed, PhoneBad}, password : {<<>>, PasswordQ}]

Supplied(body) == {k \in DOMAIN body : body[k] # <<>>}

UpdateBodies ==
  {body \in UpdateFields : Cardinality(Supplied(body)) <= 1}
  \cup {[name |-> NameB, email |-> EmailB, phone |-> PhonePrefixed, password |-> PasswordQ]}

RoleBodies == {"user", "admin", "root"}

\* ------------------------------------------------------------------- state

VARIABLES
  store,      \* the users collection: _id -> document
  nextId,     \* the next ObjectId a constructor draws
  inflight,   \* the handlers suspended at an await: a bag of their frames
  resp,       \* the response sent last, with its request
  nreq,       \* requests accepted so far
  nresp,      \* responses sent so far
  registered, \* history: per stored user, the credentials it registered with
              \* and the plaintext password set last
  deleted     \* history: the ids DELETE has removed

vars == <<store, nextId, inflight, resp, nreq, nresp, registered, deleted>>

Init ==
  /\ store = <<>>
  /\ nextId = 1
  /\ inflight = EmptyBag
  /\ resp = [op |-> "none", req |-> <<>>, status |-> 0, body |-> [success |-> TRUE]]
  /\ nreq = 0
  /\ nresp = 0
  /\ registered = <<>>
  /\ deleted = {}

\* A request is accepted.
Accept == nreq < MaxReqs /\ nreq' = nreq + 1

\* One more handler may suspend.
Free == BagCardinality(inflight) < MaxInflight

\* The handler suspends with frame h.
Suspend(h) == inflight' = inflight (+) SetToBag({h})

\* The handler suspended with frame h runs on, and suspends again with
\* frame g or ends.
Resume(h, g) == inflight' = (inflight (-) SetToBag({h})) (+) SetToBag({g})
Finish(h) == inflight' = inflight (-) SetToBag({h})

\* The suspended handlers
Handlers == BagToSet(inflight)

\* res.status(status).json(body)
Send(op, req, status, body) ==
  /\ resp' = [op |-> op, req |-> req, status |-> status, body |-> body]
  /\ nresp' = nresp + 1

\* An asyncHandler without catch(next): the rejection reaches nobody.
Throw_Swallowed(op, req, resStatusCode, err) == UNCHANGED <<resp, nresp>>

\* asyncHandler's catch(next): the error reaches errorHandler.
Throw(op, req, resStatusCode, err) ==
  LET r == errorHandler(err, resStatusCode)
  IN  Send(op, req, r.status, r.body)

\* ---------------------------------------------------------------- handlers

\* A find() without the projection.
selectNoPassword_All(doc) == doc

\* .select("-password").lean(): the stored document without its password
selectNoPassword(doc) == [k \in DOMAIN doc \ {"password"} |-> doc[k]]

\* getUsers: User.find().select("-password").lean(), then res.json
GetUsers ==
  /\ Accept
  /\ Send("list", <<>>, 200,
          [success |-> TRUE, users |-> {selectNoPassword(store[i]) : i \in DOMAIN store}])
  /\ UNCHANGED <<store, nextId, inflight, registered, deleted>>

\* {id: user.id, name, email, phone, role} of registerUser and updateUser
PublicUser(doc) ==
  [id |-> doc._id, name |-> doc.name, email |-> doc.email, phone |-> doc.phone,
   role |-> doc.role]

\* registerUser up to its second await: the required fields, the findOne
\* pre-check, new User(...)
RegisterFindOne(body) ==
  /\ Accept
  /\ Free
  /\ IF Falsy(body.name) \/ Falsy(body.email) \/ Falsy(body.phone) \/ Falsy(body.password)
     THEN /\ Throw("register", body, 400, Error("name, email, phone and password are required"))
          /\ UNCHANGED <<store, nextId, inflight, registered, deleted>>
     ELSE IF findOne(store, toLowerCase(body.email)) # {}
     THEN /\ Throw("register", body, 400, Error("Email already registered"))
          /\ UNCHANGED <<store, nextId, inflight, registered, deleted>>
     ELSE /\ Suspend([pc |-> "register_save", req |-> body,
                       user |-> NewUser(nextId, body)])
          /\ nextId' = nextId + 1
          /\ UNCHANGED <<store, resp, nresp, registered, deleted>>

\* registerUser from user.save() on
RegisterSave(h, salt) ==
  /\ h \in Handlers
  /\ h.pc = "register_save"
  /\ LET r == save(store, h.user, salt)
         plain == h.user.doc
     IN  IF r.ok
         THEN /\ store' = r.store
              /\ Send("register", h.req, 201,
                      [success |-> TRUE, message |-> "User registered successfully",
                       user |-> PublicUser(r.user.doc)])
              /\ registered' =
                   [i \in DOMAIN registered \cup {plain._id} |->
                      IF i = plain._id
                      THEN [email |-> plain.email, password |-> plain.password,
                            passwordSet |-> FALSE, plain |-> plain.password]
                      ELSE registered[i]]
         ELSE /\ Throw("register", h.req, 200, r.err)
              /\ UNCHANGED <<store, registered>>
  /\ Finish(h)
  /\ UNCHANGED <<nextId, nreq, deleted>>

\* A login that tells an unknown email apart.
LoginNoUser_Told == [status |-> 404, err |-> Error("User not found")]

\* if (!user) { res.status(401); throw ... }
LoginNoUser == [status |-> 401, err |-> Error("Invalid email or password")]

\* if (!match) { res.status(401); throw ... }
LoginNoMatch == [status |-> 401, err |-> Error("Invalid email or password")]

\* loginUser: findOne, bcrypt.compare, res.json
Login(body) ==
  /\ Accept
  /\ IF Falsy(body.email) \/ Falsy(body.password)
     THEN Throw("login", body, 400, Error("Email and password required"))
     ELSE IF findOne(store, toLowerCase(body.email)) = {}
     THEN Throw("login", body, LoginNoUser.status, LoginNoUser.err)
     ELSE \E i \in findOne(store, toLowerCase(body.email)) :
            IF ~bcryptCompare(body.password, store[i].password)
            THEN Throw("login", body, LoginNoMatch.status, LoginNoMatch.err)
            ELSE Send("login", body, 200,
                      [success |-> TRUE, message |-> "Login successful",
                       role |-> store[i].role])
  /\ UNCHANGED <<store, nextId, inflight, registered, deleted>>

\* if (name) user.name = name; if (phone) ...; if (password) ...
ApplyProfile(u, body) ==
  LET u1 == IF Falsy(body.name) THEN u ELSE DocSet(u, "name", body.name)
      u2 == IF Falsy(body.phone) THEN u1 ELSE DocSet(u1, "phone", body.phone)
  IN  IF Falsy(body.password) THEN u2 ELSE DocSet(u2, "password", body.password)

\* if (email && email.toLowerCase() !== user.email)
EmailChanges(u, body) ==
  ~Falsy(body.email) /\ toLowerCase(body.email) # u.doc.email

\* updateUser up to its second await: the id check, findById, and, when the
\* email does not change, the assignments
UpdateFindById(id, body) ==
  /\ Accept
  /\ Free
  /\ LET req == [id |-> id, body |-> body]
     IN  IF ~ObjectIdIsValid(id)
         THEN /\ Throw("update", req, 400, Error("Invalid user id"))
              /\ UNCHANGED inflight
         ELSE IF id \notin DOMAIN store
         THEN /\ Throw("update", req, 404, Error("User not found"))
              /\ UNCHANGED inflight
         ELSE /\ Suspend(IF EmailChanges(Hydrate(store[id]), body)
                         THEN [pc |-> "update_findOne", req |-> req,
                               user |-> Hydrate(store[id])]
                         ELSE [pc |-> "update_save", req |-> req,
                               user |-> ApplyProfile(Hydrate(store[id]), body)])
              /\ UNCHANGED <<resp, nresp>>
  /\ UNCHANGED <<store, nextId, registered, deleted>>

\* updateUser's uniqueness pre-check and the assignments after it
UpdateFindOne(h) ==
  /\ h \in Handlers
  /\ h.pc = "update_findOne"
  /\ LET req == h.req
         u == h.user
     IN  IF findOne(store, toLowerCase(req.body.email)) # {}
         THEN /\ Throw("update", req, 400, Error("Email already registered"))
              /\ Finish(h)
         ELSE /\ Resume(h, [pc |-> "update_save", req |-> req,
                             user |-> ApplyProfile(
                                        DocSet(u, "email", toLowerCase(req.body.email)),
                                        req.body)])
              /\ UNCHANGED <<resp, nresp>>
  /\ UNCHANGED <<store, nextId, nreq, registered, deleted>>

\* The history of a user whose password a save has set again.
NotePassword(u, ok) ==
  IF ok /\ "password" \in u.modified /\ u.doc._id \in DOMAIN registered
  THEN [registered EXCEPT ![u.doc._id].passwordSet = TRUE,
                          ![u.doc._id].plain = u.doc.password]
  ELSE registered

\* updateUser from user.save() on
UpdateSave(h, salt) ==
  /\ h \in Handlers
  /\ h.pc = "update_save"
  /\ LET r == save(store, h.user, salt)
     IN  /\ store' = r.store
         /\ registered' = NotePassword(h.user, r.ok)
         /\ IF r.ok
            THEN Send("update", h.req, 200,
                      [success |-> TRUE, message |-> "User updated",
                       user |-> PublicUser(r.user.doc)])
            ELSE Throw("update", h.req, 200, r.err)
  /\ Finish(h)
  /\ UNCHANGED <<nextId, nreq, deleted>>

\* A role update without the same-role check.
HasRole_Never(doc, role) == FALSE

\* if (user.role === role)
HasRole(doc, role) == doc.role = role

\* updateUserRole up to its second await
UpdateRoleFindById(id, role) ==
  /\ Accept
  /\ Free
  /\ LET req == [id |-> id, role |-> role]
     IN  IF role \notin {"user", "admin"}
         THEN /\ Throw("role", req, 400, Error("Role must be either \"user\" or \"admin\""))
              /\ UNCHANGED inflight
         ELSE IF ~ObjectIdIsValid(id)
         THEN /\ Throw("role", req, 400, Error("Invalid user id"))
              /\ UNCHANGED inflight
         ELSE IF id \notin DOMAIN store
         THEN /\ Throw("role", req, 404, Error("User not found"))
              /\ UNCHANGED inflight
         ELSE IF HasRole(store[id], role)
         THEN /\ Send("role", req, 400,
                      [success |-> FALSE, message |-> "User is already a " \o role])
              /\ UNCHANGED inflight
         ELSE /\ Suspend([pc |-> "role_save", req |-> req,
                           user |-> DocSet(Hydrate(store[id]), "role", role)])
              /\ UNCHANGED <<resp, nresp>>
  /\ UNCHANGED <<store, nextId, registered, deleted>>

\* updateUserRole from user.save() on
UpdateRoleSave(h, salt) ==
  /\ h \in Handlers
  /\ h.pc = "role_save"
  /\ LET r == save(store, h.user, salt)
     IN  /\ store' = r.store
         /\ registered' = NotePassword(h.user, r.ok)
         /\ IF r.ok
            THEN Send("role", h.req, 200,
                      [success |-> TRUE, message |-> "Role updated",
                       user |-> [id |-> r.user.doc._id, role |-> r.user.doc.role]])
            ELSE Throw("role", h.req, 200, r.err)
  /\ Finish(h)
  /\ UNCHANGED <<nextId, nreq, deleted>>

\* deleteUser: the id check and User.findByIdAndDelete
DeleteUser(id) ==
  /\ Accept
  /\ LET req == [id |-> id]
     IN  IF ~ObjectIdIsValid(id)
         THEN /\ Throw("delete", req, 400, Error("Invalid user id"))
              /\ UNCHANGED <<store, registered, deleted>>
         ELSE IF id \notin DOMAIN store
         THEN /\ Throw("delete", req, 404, Error("User not found"))
              /\ UNCHANGED <<store, registered, deleted>>
         ELSE /\ store' = findByIdAndDelete(store, id)
              /\ registered' = [i \in DOMAIN registered \ {id} |-> registered[i]]
              /\ deleted' = deleted \cup {id}
              /\ Send("delete", req, 200,
                      [success |-> TRUE, message |-> "User deleted successfully"])
  /\ UNCHANGED <<nextId, inflight>>

\* The ids a request may name: 0 (malformed), every id drawn so far, and the
\* next one (well-formed, not stored).
RequestIds == 0..nextId

Next ==
  \/ GetUsers
  \/ \E body \in RegisterBodies : RegisterFindOne(body)
  \/ \E h \in Handlers, salt \in Salts : RegisterSave(h, salt)
  \/ \E body \in LoginBodies : Login(body)
  \/ \E id \in RequestIds, body \in UpdateBodies : UpdateFindById(id, body)
  \/ \E h \in Handlers : UpdateFindOne(h)
  \/ \E h \in Handlers, salt \in Salts : UpdateSave(h, salt)
  \/ \E id \in RequestIds, role \in RoleBodies : UpdateRoleFindById(id, role)
  \/ \E h \in Handlers, salt \in Salts : UpdateRoleSave(h, salt)
  \/ \E id \in RequestIds : DeleteUser(id)

Spec == Init /\ [][Next]_vars

\* The store settles every call and the event loop runs every continuation:
\* a handler suspended at an await runs on.
SpecFair ==
  /\ Spec
  /\ WF_vars(\E h \in Handlers, salt \in Salts : RegisterSave(h, salt))
  /\ WF_vars(\E h \in Handlers : UpdateFindOne(h))
  /\ WF_vars(\E h \in Handlers, salt \in Salts : UpdateSave(h, salt))
  /\ WF_vars(\E h \in Handlers, salt \in Salts : UpdateRoleSave(h, salt))

\* ------------------------------------------------- the error formatter alone

\* The failures that reach errorHandler: the errors the handlers throw, one
\* without a message, the rejections of save().
ThrownErrors ==
  {Error(msg) : msg \in {"name, email, phone and password are required",
                         "Email already registered",
                         "Email and password required",
                         "Invalid email or password",
                         "Invalid user id",
                         "User not found",
                         "Role must be either \"user\" or \"admin\"",
                         ""}}
  \cup {ValidationError(msgs) :
          msgs \in {<<"Name is required">>,
                    <<"root is not a valid enum value for path role.">>,
                    <<"Please fill a valid email address",
                      "Please fill a valid Indian phone number">>,
                    <<"Name is required", "Please fill a valid email address",
                      "Please fill a valid Indian phone number">>}}
  \cup {DuplicateKeyError, DocumentNotFoundError}

\* The values of res.statusCode when the failure arrives
ResStatusCodes == {0, 200, 201, 400, 401, 403, 404, 500}

\* A request fails with err when its response has the status statusCode,
\* and errorHandler answers it.
ErrorHandler(err, statusCode) ==
  /\ Accept
  /\ Throw("error", [err |-> err, statusCode |-> statusCode], statusCode, err)
  /\ UNCHANGED <<store, nextId, inflight, registered, deleted>>

NextError == \E err \in ThrownErrors, statusCode \in ResStatusCodes : ErrorHandler(err, statusCode)

SpecError == Init /\ [][NextError]_vars

\* ------------------------------------------------------------------ claims

\* C1: in every reachable state no two stored users have the same
\* (lowercased) email, whatever the interleaving of register and
\* update-profile requests.
C1_EmailUnique ==
  \A i, j \in DOMAIN store :
    i # j => toLowerCase(store[i].email) # toLowerCase(store[j].email)

\* Two users are stored and a save that passed its pre-check was refused by
\* the unique index.
C1_Witness ==
  /\ Cardinality(DOMAIN store) = 2
  /\ resp.op \in {"register", "update"}
  /\ resp.body.success = FALSE
  /\ resp.body.message = "email already exists"

\* A step in which registerUser answers: at once from the pre-check, or from
\* its save.
RegisterAnswers ==
  \/ \E body \in RegisterBodies :
       RegisterFindOne(body) /\ inflight' = inflight
  \/ \E h \in Handlers, salt \in Salts : RegisterSave(h, salt)

\* C2: a register request whose email equals, ignoring letter case, the email
\* of a user already stored is answered 400 and stores nothing, whether the
\* pre-check or the unique index catches it; so of two such requests at most
\* one is answered 201.
C2_RegisterTwice ==
  [][RegisterAnswers =>
       ((\E i \in DOMAIN store : store[i].email = toLowerCase(resp'.req.email))
          => resp'.status = 400 /\ store' = store)]_vars

\* The loser of two concurrent registrations, refused by the unique index.
C2_Witness ==
  /\ resp.op = "register"
  /\ resp.status = 400
  /\ resp.body.message = "email already exists"
  /\ resp.req.email = EmailAUpper
  /\ \E i \in DOMAIN store : store[i].email = EmailA

\* The user objects of the response sent last.
ResponseUsers ==
  (IF "user" \in DOMAIN resp.body THEN {resp.body.user} ELSE {})
  \cup (IF "users" \in DOMAIN resp.body THEN resp.body.users ELSE {})

\* A bcrypt digest
IsDigest(v) == Len(v) >= 2 /\ v[1] = BcryptTag

\* A valid registration of an email no stored user holds.
ValidRegistration(h) ==
  /\ h.pc = "register_save"
  /\ ValidationMessages(h.user.doc) = <<>>
  /\ \A i \in DOMAIN store : store[i].email # h.user.doc.email

\* C3: no response body, of any endpoint or of the error formatter, has a
\* password key, in itself or in a user object, nor a digest as the value of
\* a text field; and the save of a valid registration with an unused email is
\* answered 201 with a user object without a password key.
C3_NoPassword ==
  /\ [](/\ "password" \notin DOMAIN resp.body
        /\ \A u \in ResponseUsers :
             /\ "password" \notin DOMAIN u
             /\ \A k \in DOMAIN u \cap {"name", "email", "phone"} : ~IsDigest(u[k]))
  /\ [][\A h \in Handlers, salt \in Salts :
          RegisterSave(h, salt) /\ ValidRegistration(h)
            => /\ resp'.status = 201
               /\ DOMAIN resp'.body.user = {"id", "name", "email", "phone", "role"}]_vars

\* GET /users has answered with the stored users.
C3_Witness ==
  /\ resp.op = "list"
  /\ resp.status = 200
  /\ resp.body.users # {}
  /\ \E i \in DOMAIN store : IsDigest(store[i].password)

\* C4: a login whose email matches no user and a login whose email matches a
\* user whose digest the password does not match are answered alike: 401 and
\* {success: false, message: "Invalid email or password"}.
C4_LoginUniform ==
  [][\A body \in LoginBodies :
       /\ Login(body)
       /\ ~Falsy(body.email)
       /\ ~Falsy(body.password)
       /\ \/ \A i \in DOMAIN store : store[i].email # applySetters("email", body.email)
          \/ \E i \in DOMAIN store :
               /\ store[i].email = applySetters("email", body.email)
               /\ ~bcryptCompare(body.password, store[i].password)
       => /\ resp'.status = 401
          /\ resp'.body = [success |-> FALSE, message |-> "Invalid email or password"]]_vars

\* A login with a stored email and a wrong password was refused.
C4_Witness ==
  /\ resp.op = "login"
  /\ resp.status = 401
  /\ \E i \in DOMAIN store :
       /\ store[i].email = applySetters("email", resp.req.email)
       /\ ~bcryptCompare(resp.req.password, store[i].password)

\* The login is with the email and password user id registered with, or with
\* that email and another password: 200 for the one, 401 for the other.
RoundTrip(id, body) ==
  IF body.password = registered[id].password
  THEN resp'.status = 200 /\ resp'.body.success = TRUE
  ELSE resp'.status = 401

\* C5 as stated: after a user registered with email e and password p, and
\* until that user's password is set again or the user is deleted, login
\* with (e, p) is answered 200 with success true and login with (e, q), for
\* every password q other than p, is answered 401.
C5_AsStated ==
  [][\A body \in LoginBodies, id \in DOMAIN registered :
       /\ Login(body)
       /\ ~registered[id].passwordSet
       /\ registered[id].email = applySetters("email", body.email)
       /\ ~Falsy(body.password)
       => RoundTrip(id, body)]_vars

\* C5, amended: the same, until that user's password is set again, its email
\* is changed or it is deleted.
C5_RoundTrip ==
  [][\A body \in LoginBodies, id \in DOMAIN registered :
       /\ Login(body)
       /\ ~registered[id].passwordSet
       /\ registered[id].email = applySetters("email", body.email)
       /\ store[id].email = registered[id].email
       /\ ~Falsy(body.password)
       => RoundTrip(id, body)]_vars

\* A user logged in with the email and password of the registration.
C5_Witness ==
  /\ resp.op = "login"
  /\ resp.status = 200
  /\ \E id \in DOMAIN registered :
       /\ ~registered[id].passwordSet
       /\ registered[id].email = applySetters("email", resp.req.email)
       /\ registered[id].password = resp.req.password
       /\ store[id].email = registered[id].email

\* C6: an update-role request for a stored user whose requested role is the
\* role the user has is answered 400 with success false at once, and the
\* store is as it was.
C6_SameRole ==
  [][\A id \in RequestIds, role \in RoleBodies :
       /\ UpdateRoleFindById(id, role)
       /\ id \in DOMAIN store
       /\ store[id].role = role
       => /\ inflight' = inflight
          /\ resp'.status = 400
          /\ resp'.body.success = FALSE
          /\ store' = store]_vars

\* A role update to the role the user has was refused.
C6_Witness ==
  /\ resp.op = "role"
  /\ resp.status = 400
  /\ resp.req.id \in DOMAIN store
  /\ store[resp.req.id].role = resp.req.role
  /\ resp.body = [success |-> FALSE, message |-> "User is already a " \o resp.req.role]

\* C7: a delete of a well-formed id that no stored user has is answered 404
\* and leaves the store as it was; a delete of a stored user is answered 200
\* and removes it, so that a second delete is answered 404; and a deleted
\* user is in the store, and in the list GET /users returns, never again.
C7_Delete ==
  /\ [][\A id \in RequestIds :
          DeleteUser(id) /\ ObjectIdIsValid(id)
            => IF id \in DOMAIN store
               THEN resp'.status = 200 /\ id \notin DOMAIN store'
               ELSE resp'.status = 404 /\ store' = store]_vars
  /\ [](deleted \cap DOMAIN store = {})
  /\ [][GetUsers => \A u \in resp'.body.users : u._id \notin deleted]_vars

\* The second delete of a user: 404 for an id the first delete removed.
C7_Witness ==
  /\ resp.op = "delete"
  /\ resp.status = 404
  /\ resp.req.id \in deleted

\* A step in which the request carrying req is answered at once.
AnswersAtOnce == nreq' # nreq /\ inflight' = inflight

\* C8: in every reachable state every stored role is "user" or "admin"; a
\* register request with another role stores nothing and is answered 400, one
\* without a role stores "user"; an update-role request with another value is
\* answered 400 and changes nothing.
C8_RoleEnum ==
  /\ [](\A i \in DOMAIN store : store[i].role \in {"user", "admin"})
  /\ [][\A body \in RegisterBodies :
          RegisterFindOne(body) /\ body.role \notin {"", "user", "admin"}
            => store' = store /\ (AnswersAtOnce => resp'.status = 400)]_vars
  /\ [][\A h \in Handlers, salt \in Salts :
          RegisterSave(h, salt)
            => /\ h.req.role \notin {"", "user", "admin"}
                    => store' = store /\ resp'.status = 400
               /\ h.req.role = "" /\ resp'.status = 201
                    => store'[h.user.doc._id].role = "user"]_vars
  /\ [][\A id \in RequestIds, role \in RoleBodies :
          UpdateRoleFindById(id, role) /\ role \notin {"user", "admin"}
            => AnswersAtOnce /\ resp'.status = 400 /\ store' = store]_vars

\* A registration with a role outside the enum was refused by the schema.
C8_Witness ==
  /\ resp.op = "register"
  /\ resp.status = 400
  /\ resp.req.role = "root"
  /\ resp.body.message = "root is not a valid enum value for path role."

\* C9 as stated: every user object an endpoint returns has its identifier
\* under the key id and has no _id key.
C9_IdKey ==
  \A u \in ResponseUsers : "id" \in DOMAIN u /\ "_id" \notin DOMAIN u

\* C10: an update-profile request whose email is not the target's and is,
\* ignoring letter case, the email of another stored user when the handler
\* checks it is answered 400 and applies none of its fields; the same when
\* the unique index refuses the save: the store is as it was.
C10_EmailTaken ==
  /\ [][\A h \in Handlers :
          /\ UpdateFindOne(h)
          /\ \E j \in DOMAIN store :
               j # h.req.id /\ store[j].email = toLowerCase(h.req.body.email)
          => resp'.status = 400 /\ store' = store /\ inflight' = inflight (-) SetToBag({h})]_vars
  /\ [][\A h \in Handlers, salt \in Salts :
          /\ UpdateSave(h, salt)
          /\ "email" \in h.user.modified
          /\ \E j \in DOMAIN store :
               j # h.req.id /\ store[j].email = toLowerCase(h.req.body.email)
          => resp'.status = 400 /\ store' = store]_vars

\* An update to the email of another stored user was refused by the
\* handler's check, with the target stored under its own email.
C10_Witness ==
  /\ resp.op = "update"
  /\ resp.status = 400
  /\ resp.body.message = "Email already registered"
  /\ resp.req.id \in DOMAIN store
  /\ store[resp.req.id].email # toLowerCase(resp.req.body.email)
  /\ \E j \in DOMAIN store :
       j # resp.req.id /\ store[j].email = toLowerCase(resp.req.body.email)

\* C11: an update-profile request answered 200 leaves the store's other
\* users, and the target's id and role, as they are when it saves; a field of
\* name, email, phone, password that is absent or empty keeps the stored
\* value; a field whose stored value the save changes is a supplied one and
\* gets the supplied value (trimmed, lowercased for the email, hashed for the
\* password), and every supplied value that differs from the one the handler
\* read is stored.
C11_UpdateFrame ==
  [][\A h \in Handlers, salt \in Salts :
       UpdateSave(h, salt) /\ resp'.status = 200
       => LET id == h.req.id
              body == h.req.body
          IN  /\ DOMAIN store' = DOMAIN store
              /\ \A j \in DOMAIN store \ {id} : store'[j] = store[j]
              /\ store'[id]._id = store[id]._id
              /\ store'[id].role = store[id].role
              /\ \A k \in {"name", "email", "phone"} :
                   /\ Falsy(body[k]) => store'[id][k] = store[id][k]
                   /\ store'[id][k] # store[id][k]
                        => store'[id][k] = applySetters(k, body[k])
                   /\ k \in h.user.modified
                        => store'[id][k] = applySetters(k, body[k])
              /\ IF Falsy(body.password)
                 THEN store'[id].password = store[id].password
                 ELSE bcryptCompare(body.password, store'[id].password)]_vars

\* An update of the phone alone was answered 200 for a user whose role a
\* role update changed between the handler's findById and its save: the
\* response shows the role read, the store the role set.
C11_Witness ==
  /\ resp.op = "update"
  /\ resp.status = 200
  /\ Supplied(resp.req.body) = {"phone"}
  /\ resp.req.id \in DOMAIN store
  /\ store[resp.req.id].phone = applySetters("phone", resp.req.body.phone)
  /\ store[resp.req.id].role # resp.body.user.role

\* C12 as stated: every response to an update-profile request has status
\* 200, 400 or 404, also when a delete of the same id completes between the
\* handler's findById and its save. Stated for the requests that supply a
\* field.
C12_UpdateStatus ==
  resp.op = "update" /\ Supplied(resp.req.body) # {}
    => resp.status \in {200, 400, 404}

\* C13: of the delete requests for one stored user exactly one is answered
\* 200 and every other one 404, in whatever order their store steps run: a
\* delete is answered 200 exactly when the user is stored at its one store
\* step, that step removes the user, and a delete of an id that a delete
\* has been answered 200 for is answered 404.
C13_DeleteOnce ==
  [][\A id \in RequestIds :
       DeleteUser(id) /\ ObjectIdIsValid(id)
       => /\ resp'.status \in {200, 404}
          /\ resp'.status = 200 <=> id \in DOMAIN store
          /\ resp'.status = 200
               => id \notin deleted /\ id \in deleted' /\ id \notin DOMAIN store'
          /\ id \in deleted => resp'.status = 404 /\ store' = store]_vars

\* Two deletes of the one registered user have been answered, the second
\* with 404.
C13_Witness ==
  /\ nreq = 3
  /\ store = <<>>
  /\ deleted = {1}
  /\ resp.op = "delete"
  /\ resp.req.id = 1
  /\ resp.status = 404

\* The plaintext passwords of the requests
Plaintexts == {PasswordP, PasswordQ}

\* C14: the stored digest of a user changes only in the save of an
\* update-profile request for that user with a non-empty password (a register
\* request stores a new user's first digest); a save of update role, or of
\* update profile without a password, leaves every stored digest as it was;
\* an update-profile answered 200 that sets password p' stores a digest that
\* p' matches and no other plaintext does; and a login with a stored user's
\* email is answered 200 exactly for the plaintext set last, 401 for another.
C14_HashOnlyOnSet ==
  /\ [][\A i \in DOMAIN store \cap DOMAIN store' :
          store'[i].password # store[i].password
            => \E h \in Handlers, salt \in Salts :
                 /\ UpdateSave(h, salt)
                 /\ h.req.id = i
                 /\ ~Falsy(h.req.body.password)]_vars
  /\ [][\A h \in Handlers, salt \in Salts :
          \/ UpdateRoleSave(h, salt)
          \/ UpdateSave(h, salt) /\ Falsy(h.req.body.password)
          => \A i \in DOMAIN store : store'[i].password = store[i].password]_vars
  /\ [][\A h \in Handlers, salt \in Salts :
          UpdateSave(h, salt) /\ resp'.status = 200 /\ ~Falsy(h.req.body.password)
          => /\ IsDigest(store'[h.req.id].password)
             /\ \A x \in Plaintexts :
                  bcryptCompare(x, store'[h.req.id].password) <=> x = h.req.body.password]_vars
  /\ [][\A body \in LoginBodies, id \in DOMAIN registered :
          /\ Login(body)
          /\ ~Falsy(body.password)
          /\ store[id].email = applySetters("email", body.email)
          => IF body.password = registered[id].plain
             THEN resp'.status = 200
             ELSE resp'.status = 401]_vars

\* A role update was answered 200 for a user whose password an update had
\* set to q: the stored digest is the one that update stored, and q matches
\* it.
C14_Witness ==
  /\ resp.op = "role"
  /\ resp.status = 200
  /\ resp.req.id \in DOMAIN registered
  /\ registered[resp.req.id].passwordSet
  /\ registered[resp.req.id].password = PasswordP
  /\ registered[resp.req.id].plain = PasswordQ
  /\ store[resp.req.id].role = resp.req.role
  /\ bcryptCompare(PasswordQ, store[resp.req.id].password)
  /\ ~bcryptCompare(PasswordP, store[resp.req.id].password)

\* The messages of a validation failure, joined with ", "
Joined(msgs) ==
  CASE Len(msgs) = 1 -> msgs[1]
    [] Len(msgs) = 2 -> msgs[1] \o ", " \o msgs[2]
    [] Len(msgs) = 3 -> msgs[1] \o ", " \o msgs[2] \o ", " \o msgs[3]

\* C15: the error formatter answers with the status the handler set on the
\* response when that is neither 0 nor 200, else with 500; with 400 and the
\* field messages joined with ", " for a validation failure; with 400 and
\* "<first offending field> already exists" for a failure with the
\* duplicate-key code; and every other failure keeps the first status. The
\* body is {success: false, message}.
C15_ErrorPolicy ==
  resp.op = "error"
    => LET err == resp.req.err
           set == resp.req.statusCode
           isValidation == err.name = "ValidationError"
           isDuplicate == err.code = 11000
       IN  /\ DOMAIN resp.body = {"success", "message"}
           /\ resp.body.success = FALSE
           /\ isValidation
                => resp.status = 400 /\ resp.body.message = Joined(err.errors)
           /\ isDuplicate
                => /\ resp.status = 400
                   /\ resp.body.message = err.keyPattern[1] \o " already exists"
           /\ ~isValidation /\ ~isDuplicate
                => resp.status = (IF set \in {0, 200} THEN 500 ELSE set)

\* A validation failure with two messages arrived for a response the handler
\* had set to 404, and was answered 400.
C15_Witness ==
  /\ resp.op = "error"
  /\ resp.req.statusCode = 404
  /\ resp.req.err.name = "ValidationError"
  /\ Len(resp.req.err.errors) = 2
  /\ resp.status = 400
  /\ resp.body.message =
       "Please fill a valid email address, Please fill a valid Indian phone number"

\* C16: every request is answered exactly once. The requests accepted are
\* the ones answered and the ones whose handler is suspended at an await; a
\* step sends at most one response, and sends one exactly when a handler
\* ends, by its own res.json or by a failure that reaches errorHandler; every
\* response with a status outside 200..299 has the body
\* {success: false, message: <string>} and no other key; and every request
\* accepted is answered in the end.
C16_AnsweredOnce ==
  /\ [](nresp + BagCardinality(inflight) = nreq)
  /\ [][/\ nresp' \in {nresp, nresp + 1}
        /\ (nresp' = nresp + 1)
             <=> (nreq' - BagCardinality(inflight') = (nreq - BagCardinality(inflight)) + 1)
        /\ resp' # resp => nresp' = nresp + 1]_vars
  /\ [](resp.op # "none" /\ resp.status \notin 200..299
          => /\ DOMAIN resp.body = {"success", "message"}
             /\ resp.body.success = FALSE
             /\ resp.body.message \in STRING)
  /\ (nresp < nreq) ~> (nresp = nreq)

\* Three requests were answered, the last by errorHandler for a save that
\* the store rejected.
C16_Witness ==
  /\ nreq = 3
  /\ nresp = 3
  /\ inflight = EmptyBag
  /\ resp.status = 500
  /\ resp.body = [success |-> FALSE, message |-> "No document found for query"]

====
